---- MODULE Spec2Model ----
(***************************************************************************)
(* Model of the VortexProvider auth state machine (src/src/VortexProvider  *)
(* .tsx): the reducer state, the single-slot refresh timer, the remembered *)
(* renewal context and the refreshJwt / clearAuth operations, with the     *)
(* closure that every refreshJwt invocation runs in.                       *)
(***************************************************************************)
EXTENDS Integers, Sequences, FiniteSets, TLC

(***************************************************************************)
(* Bounds of the model (not program constants).                            *)
(***************************************************************************)
MaxInFlight == 2
MaxTimers == 3
\* how far past maxRetries the model follows jwtRetryCount and a retry chain
MaxOvershoot == 1
\* hook operations suspended at their await at the same time
MaxHookCalls == 2

(***************************************************************************)
(* JavaScript values.                                                      *)
(***************************************************************************)
Null == "null"
Undefined == "undefined"
NullUser == [tag |-> "null"]

Min(a, b) == IF a <= b THEN a ELSE b

RECURSIVE Pow(_, _)
Pow(b, e) == IF e = 0 THEN 1 ELSE b * Pow(b, e - 1)

(***************************************************************************)
(* Tokens the server may return, as strings, and what String.split('.'),   *)
(* atob and JSON.parse do on them.                                         *)
(***************************************************************************)
TokU1 == "h.B64u1.s"
TokU2 == "h.B64u2.s"
TokEmpty == "h.B64empty.s"
TokNullJson == "h.B64null.s"
TokNotJson == "h.B64text.s"
TokNotB64 == "h.!!.s"
TokOpaque == "opaque"
\* tokens with an expiry: {userId: u1, exp: 600}, {expires: an ISO date at
\* 600 s}, {exp: "soon"}
TokExp == "h.B64exp.s"
TokExpires == "h.B64expires.s"
TokExpText == "h.B64exptext.s"
Tokens == {TokU1, TokU2, TokEmpty, TokNullJson, TokNotJson, TokNotB64, TokOpaque}

\* the tokens the credential endpoint answers with
ServerTokens == {TokU1, TokNotB64}

\* response.jwt.split('.')
Split(tok) ==
  CASE tok = TokU1 -> <<"h", "B64u1", "s">>
    [] tok = TokU2 -> <<"h", "B64u2", "s">>
    [] tok = TokEmpty -> <<"h", "B64empty", "s">>
    [] tok = TokNullJson -> <<"h", "B64null", "s">>
    [] tok = TokNotJson -> <<"h", "B64text", "s">>
    [] tok = TokNotB64 -> <<"h", "!!", "s">>
    [] tok = TokExp -> <<"h", "B64exp", "s">>
    [] tok = TokExpires -> <<"h", "B64expires", "s">>
    [] tok = TokExpText -> <<"h", "B64exptext", "s">>
    [] OTHER -> <<tok>>

\* split(...)[1]: the second segment, undefined when there is none
Segment1(parts) == IF Len(parts) >= 2 THEN parts[2] ELSE Undefined

\* atob: the decoded text, or a throw on input that is not base64
\* (atob(undefined) reads the 9 characters "undefined", which is not base64)
Atob(seg) ==
  CASE seg = "B64u1" -> [ok |-> TRUE, text |-> "{userId:u1}"]
    [] seg = "B64u2" -> [ok |-> TRUE, text |-> "{userId:u2,userEmail,groups,role}"]
    [] seg = "B64empty" -> [ok |-> TRUE, text |-> "{}"]
    [] seg = "B64null" -> [ok |-> TRUE, text |-> "null"]
    [] seg = "B64text" -> [ok |-> TRUE, text |-> "hello"]
    [] seg = "B64exp" -> [ok |-> TRUE, text |-> "{userId:u1,exp:600}"]
    [] seg = "B64expires" ->
         [ok |-> TRUE, text |-> "{expires:1970-01-01T00:10:00Z}"]
    [] seg = "B64exptext" -> [ok |-> TRUE, text |-> "{exp:soon}"]
    [] OTHER -> [ok |-> FALSE, text |-> ""]

\* the values of the claims exp and expires: absent, a number, a string
NoExp == [t |-> "undefined"]
NumberExp(n) == [t |-> "number", n |-> n]
StringExp(str) == [t |-> "string", s |-> str]

NoClaims ==
  [userId |-> Undefined, userEmail |-> Undefined, adminScopes |-> Undefined,
   identifiers |-> Undefined, groups |-> Undefined, role |-> Undefined,
   exp |-> NoExp, expires |-> NoExp]

\* JSON.parse: kind "object" with its claims, kind "null", or a throw
JSONParse(text) ==
  CASE text = "{userId:u1}" ->
         [ok |-> TRUE, kind |-> "object",
          claims |-> [NoClaims EXCEPT !.userId = "u1"]]
    [] text = "{userId:u2,userEmail,groups,role}" ->
         [ok |-> TRUE, kind |-> "object",
          claims |-> [NoClaims EXCEPT !.userId = "u2", !.userEmail = "u2@x.io",
                                      !.groups = "[team-1]", !.role = "admin"]]
    [] text = "{}" -> [ok |-> TRUE, kind |-> "object", claims |-> NoClaims]
    [] text = "{userId:u1,exp:600}" ->
         [ok |-> TRUE, kind |-> "object",
          claims |-> [NoClaims EXCEPT !.userId = "u1", !.exp = NumberExp(600)]]
    [] text = "{expires:1970-01-01T00:10:00Z}" ->
         [ok |-> TRUE, kind |-> "object",
          claims |-> [NoClaims EXCEPT
                        !.expires = StringExp("1970-01-01T00:10:00Z")]]
    [] text = "{exp:soon}" ->
         [ok |-> TRUE, kind |-> "object",
          claims |-> [NoClaims EXCEPT !.exp = StringExp("soon")]]
    [] text = "null" -> [ok |-> TRUE, kind |-> "null", claims |-> NoClaims]
    [] OTHER -> [ok |-> FALSE, kind |-> "throw", claims |-> NoClaims]

\* a || b on the values used here
OrElse(a, b) == IF a = Undefined \/ a = Null THEN b ELSE a


(***************************************************************************)
(* JavaScript objects are functions from the keys they carry to values;    *)
(* {...a, ...b} keeps a's entries unless b carries the key.                *)
(***************************************************************************)
EmptyObject == [k \in {} |-> 0]

Has(obj, k) == k \in DOMAIN obj

Spread(a, b) ==
  [k \in (DOMAIN a) \cup (DOMAIN b) |-> IF k \in DOMAIN b THEN b[k] ELSE a[k]]

(***************************************************************************)
(* Token Decoder: the inner try/catch of refreshJwt.  NullUser when        *)
(* anything in split / atob / JSON.parse / property access throws.         *)
(***************************************************************************)
DecodeUser(jwt, conf) ==
  IF jwt = Undefined THEN NullUser          \* undefined.split throws
  ELSE
    LET a == Atob(Segment1(Split(jwt)))
        j == JSONParse(a.text)
    IN IF ~a.ok THEN NullUser
       ELSE IF ~j.ok THEN NullUser
       ELSE IF j.kind = "null" THEN NullUser \* null.userId throws
       ELSE [tag |-> "user",
             userId |-> j.claims.userId,
             userEmail |-> j.claims.userEmail,
             adminScopes |-> j.claims.adminScopes,
             identifiers |-> j.claims.identifiers,
             groups |-> OrElse(j.claims.groups,
                               IF Has(conf, "defaultGroups") THEN conf.defaultGroups
                               ELSE Undefined),
             role |-> j.claims.role]

(***************************************************************************)
(* Configuration: the defaults and the merge of the caller's config.       *)
(***************************************************************************)
DefaultRefreshJwtInterval == 1800000
DefaultInitialDelayMs == 1000
DefaultMaxDelayMs == 60000
DefaultMultiplier == 2
DefaultMaxRetries == 5

DefaultBackoff ==
  [initialDelayMs |-> DefaultInitialDelayMs, maxDelayMs |-> DefaultMaxDelayMs,
   multiplier |-> DefaultMultiplier, maxRetries |-> DefaultMaxRetries]

\* finalConfig of the useMemo
defaultConfig(config) ==
  Spread([apiBaseUrl |-> "/api/vortex",
          refreshJwtInterval |-> DefaultRefreshJwtInterval,
          jwtBackoff |-> Spread(DefaultBackoff,
                                IF Has(config, "jwtBackoff") THEN config.jwtBackoff
                                ELSE EmptyObject)],
         config)

\* the configurations the provider is mounted with
CustomBackoff ==
  [initialDelayMs |-> 1000, maxDelayMs |-> 2000, multiplier |-> 3, maxRetries |-> 2]

\* a custom backoff with the default renewal interval, and one with
\* auto-renewal disabled
UserConfigs ==
  { [jwtBackoff |-> CustomBackoff],
    [refreshJwtInterval |-> 0, jwtBackoff |-> CustomBackoff,
     defaultGroups |-> "[default-group]"] }

\* the same, and the provider mounted without a config (all defaults)
AllConfigs == UserConfigs \cup {EmptyObject}

(***************************************************************************)
(* Remote Call Gateway (apiCall) on the credential endpoint.               *)
(***************************************************************************)
HttpResponse(ok, status, statusText, body) ==
  [kind |-> "http", ok |-> ok, status |-> status, statusText |-> statusText,
   body |-> body, message |-> ""]

FailureResponses ==
  { [kind |-> "reject", ok |-> FALSE, status |-> 0, statusText |-> "",
     body |-> EmptyObject, message |-> "Failed to fetch"],
    HttpResponse(FALSE, 401, "Unauthorized", [error |-> "Unauthorized"]) }

SuccessResponses ==
  { HttpResponse(TRUE, 200, "OK", [data |-> [jwt |-> t]]) : t \in ServerTokens }
  \cup { HttpResponse(TRUE, 200, "OK", [jwt |-> TokU1]) }

JwtResponses == FailureResponses \cup SuccessResponses

\* a response whose body is not JSON: response.json() rejects with a
\* SyntaxError, whatever the status
NotJsonResponse(ok, status, statusText) ==
  [kind |-> "notjson", ok |-> ok, status |-> status, statusText |-> statusText,
   body |-> EmptyObject, message |-> "Unexpected token < in JSON"]

\* what the try block of apiCall throws, "" when it returns
Thrown(resp) ==
  IF resp.kind \in {"reject", "notjson"} THEN resp.message
  ELSE IF ~resp.ok
  THEN IF Has(resp.body, "error") /\ resp.body.error # ""
       THEN resp.body.error
       ELSE "HTTP " \o ToString(resp.status) \o ": " \o resp.statusText
  ELSE ""

\* mutant: onError is told of non-success statuses only
apiCallNotifiesStatusOnly(resp) ==
  IF Thrown(resp) # ""
  THEN [ok |-> FALSE, err |-> Thrown(resp), value |-> EmptyObject,
        onError |-> IF resp.kind = "http" THEN <<Thrown(resp)>> ELSE <<>>]
  ELSE [ok |-> TRUE, err |-> "",
        value |-> IF Has(resp.body, "data") THEN resp.body.data ELSE resp.body,
        onError |-> <<>>]

\* mutant: a falsy data field is passed over for the whole body
apiCallDataTruthy(resp) ==
  IF Thrown(resp) # ""
  THEN [ok |-> FALSE, err |-> Thrown(resp), value |-> EmptyObject,
        onError |-> <<Thrown(resp)>>]
  ELSE [ok |-> TRUE, err |-> "",
        value |-> IF Has(resp.body, "data") /\ ~Has(resp.body.data, "falsy")
                  THEN resp.body.data ELSE resp.body,
        onError |-> <<>>]

\* apiCall: [ok, value] on success, [ok, err] (the normalized error) on
\* failure; onError lists the arguments of the defaultConfig.onError?.(err)
\* calls it made
apiCall(resp) ==
  IF Thrown(resp) # ""
  THEN [ok |-> FALSE, err |-> Thrown(resp), value |-> EmptyObject,
        onError |-> <<Thrown(resp)>>]
  ELSE [ok |-> TRUE, err |-> "",
        value |-> IF Has(resp.body, "data") THEN resp.body.data ELSE resp.body,
        onError |-> <<>>]

(***************************************************************************)
(* vortexReducer, one operator per action type.                            *)
(***************************************************************************)
initialState ==
  [jwt |-> Null, user |-> NullUser, isLoading |-> FALSE, error |-> Null,
   jwtRetryCount |-> 0, jwtRetryDelayMs |-> 0]

SetLoading(s, payload) == [s EXCEPT !.isLoading = payload]

\* mutant: SET_JWT that leaves the retry state alone
SetJwtKeepsRetry(s, jwt, user) ==
  [s EXCEPT !.jwt = jwt, !.user = user, !.isLoading = FALSE, !.error = Null]

\* mutant: SET_JWT that leaves a surfaced error in place
SetJwtKeepsError(s, jwt, user) ==
  [s EXCEPT !.jwt = jwt, !.user = user, !.isLoading = FALSE,
            !.jwtRetryCount = 0, !.jwtRetryDelayMs = 0]

\* mutant: SET_JWT that does not replace a credential already held
SetJwtKeepsHeld(s, jwt, user) ==
  IF s.jwt # Null
  THEN [s EXCEPT !.isLoading = FALSE, !.error = Null,
                 !.jwtRetryCount = 0, !.jwtRetryDelayMs = 0]
  ELSE [s EXCEPT !.jwt = jwt, !.user = user, !.isLoading = FALSE, !.error = Null,
                 !.jwtRetryCount = 0, !.jwtRetryDelayMs = 0]

SetJwt(s, jwt, user) ==
  [s EXCEPT !.jwt = jwt, !.user = user, !.isLoading = FALSE, !.error = Null,
            !.jwtRetryCount = 0, !.jwtRetryDelayMs = 0]

\* mutant: SET_ERROR that also drops the credential held
SetErrorDropsCredential(s, payload) ==
  [s EXCEPT !.error = payload, !.isLoading = FALSE,
            !.jwt = Null, !.user = NullUser]

\* mutant: SET_ERROR that ends the loading state but stores no error
SetErrorLoadingOnly(s, payload) == [s EXCEPT !.isLoading = FALSE]

SetError(s, payload) == [s EXCEPT !.error = payload, !.isLoading = FALSE]

\* mutant: CLEAR_AUTH that drops the token but keeps the identity
ClearAuthKeepsUser(s) ==
  [s EXCEPT !.jwt = Null, !.error = Null,
            !.jwtRetryCount = 0, !.jwtRetryDelayMs = 0]

\* mutant: CLEAR_AUTH that leaves the retry state alone
ClearAuthKeepsRetry(s) ==
  [s EXCEPT !.jwt = Null, !.user = NullUser, !.error = Null]

\* mutant: CLEAR_AUTH that drops a surfaced error only once no token is held
ClearAuthTwoStage(s) ==
  [s EXCEPT !.jwt = Null, !.user = NullUser,
            !.error = IF s.jwt = Null THEN Null ELSE s.error,
            !.jwtRetryCount = 0, !.jwtRetryDelayMs = 0]

ClearAuthState(s) ==
  [s EXCEPT !.jwt = Null, !.user = NullUser, !.error = Null,
            !.jwtRetryCount = 0, !.jwtRetryDelayMs = 0]

\* mutant: INCREMENT_RETRY that surfaces the failure it retries
IncrementRetrySetsError(s, payload) ==
  [s EXCEPT !.jwtRetryCount = s.jwtRetryCount + 1, !.jwtRetryDelayMs = payload,
            !.error = "Retrying"]

IncrementRetry(s, payload) ==
  [s EXCEPT !.jwtRetryCount = s.jwtRetryCount + 1, !.jwtRetryDelayMs = payload]

ResetRetry(s) == [s EXCEPT !.jwtRetryCount = 0, !.jwtRetryDelayMs = 0]

vortexReducer(s, action) ==
  CASE action.type = "SET_LOADING" -> SetLoading(s, action.payload)
    [] action.type = "SET_JWT" -> SetJwt(s, action.payload.jwt, action.payload.user)
    [] action.type = "SET_ERROR" -> SetError(s, action.payload)
    [] action.type = "CLEAR_AUTH" -> ClearAuthState(s)
    [] action.type = "INCREMENT_RETRY" -> IncrementRetry(s, action.payload)
    [] action.type = "RESET_RETRY" -> ResetRetry(s)
    [] OTHER -> s


(***************************************************************************)
(* Backoff Policy, as refreshJwt's catch block computes it from the        *)
(* attempt count it reads (state.jwtRetryCount of its closure).            *)
(***************************************************************************)
shouldRetry(attempt, backoffConfig) == attempt < backoffConfig.maxRetries

\* mutant: the delay without the maxDelayMs cap
nextDelayUncapped(attempt, backoffConfig) ==
  backoffConfig.initialDelayMs * Pow(backoffConfig.multiplier, attempt)

nextDelay(attempt, backoffConfig) ==
  Min(backoffConfig.initialDelayMs * Pow(backoffConfig.multiplier, attempt),
      backoffConfig.maxDelayMs)

(***************************************************************************)
(* Provider state.                                                         *)
(*   config          the config prop the provider is mounted with          *)
(*   state           the useReducer state                                  *)
(*   refreshTimerRef refreshTimerRef.current: 0 for null, else a timer id  *)
(*   lastContextRef  lastContextRef.current                                *)
(*   timers          the timeouts pending in the event loop; each carries  *)
(*                   the closure of the refreshJwt that armed it: the      *)
(*                   jwtRetryCount that closure captured (c) and, for a    *)
(*                   retry, the context argument it captured (context);   *)
(*                   failed is history: the failed attempts so far of the  *)
(*                   chain call - retry - retry ... it belongs to          *)
(*   inflight        the refreshJwt invocations suspended at the await,    *)
(*                   in the order they were started                       *)
(*   lastEvent       history: what the last step did                       *)
(*   mounted         whether the provider component is mounted             *)
(* State of a component that uses the useInvitations hook:                 *)
(*   loading         the hook's loading record, key -> boolean             *)
(*   errors          the hook's errors, key -> Error or null               *)
(*   hookCalls       the hook operations suspended at their await          *)
(*   probe           history: the last evaluation of a function of the     *)
(*                   provider (its input and its result)                   *)
(***************************************************************************)
VARIABLES config, state, refreshTimerRef, lastContextRef, timers, inflight,
          lastEvent, loading, errors, hookCalls, probe, mounted

vars == <<config, state, refreshTimerRef, lastContextRef, timers, inflight,
          lastEvent, loading, errors, hookCalls, probe, mounted>>

providerVars == <<config, state, refreshTimerRef, lastContextRef, timers,
                  inflight, lastEvent, mounted>>

hookVars == <<loading, errors, hookCalls>>

Contexts == {"ctxA"}

NoProbe == [op |-> "none"]

\* no component has called a hook operation yet
HookUnused ==
  /\ loading = [k \in {} |-> FALSE]
  /\ errors = [k \in {} |-> Null]
  /\ hookCalls = {}

cfg == defaultConfig(config)

Event(type) ==
  [type |-> type, attempt |-> 0, prevCount |-> 0, jwt |-> Null,
   armed |-> "none", delay |-> 0, cancelled |-> FALSE, failed |-> 0,
   promise |-> "pending", repeat |-> FALSE, overtaken |-> FALSE,
   onError |-> "none"]

\* mutant: a provider that fetches a credential when it mounts
MountedFetching(configs) ==
  /\ config \in configs
  /\ state = [initialState EXCEPT !.isLoading = TRUE]
  /\ refreshTimerRef = 0
  /\ lastContextRef = Undefined
  /\ timers = {}
  /\ inflight = <<[c |-> 0, context |-> Undefined, origin |-> "manual",
                   failed |-> 0, overtaken |-> FALSE]>>
  /\ lastEvent = Event("init")
  /\ HookUnused
  /\ probe = NoProbe
  /\ mounted = TRUE

Mounted(configs) ==
  /\ config \in configs
  /\ state = initialState
  /\ refreshTimerRef = 0
  /\ lastContextRef = Undefined
  /\ timers = {}
  /\ inflight = <<>>
  /\ lastEvent = Event("init")
  /\ HookUnused
  /\ probe = NoProbe
  /\ mounted = TRUE

Init == Mounted(UserConfigs)

InitSequential == Mounted(AllConfigs)

(***************************************************************************)
(* Timers of the event loop.                                               *)
(***************************************************************************)
\* clearTimeout(id): a no-op on an id that already fired or was cleared
clearTimeout(ts, id) == {t \in ts : t.id # id}

FreeTimerIds(ts) == {n \in 1..MaxTimers : \A t \in ts : t.id # n}

\* setTimeout returns an id no pending timeout carries
NewTimerId(ts) == CHOOSE n \in FreeTimerIds(ts) : \A m \in FreeTimerIds(ts) : n <= m

\* mutant: arming without cancelling the pending timeout
ClearPendingSkipped(ts, ref) == ts

\* if (refreshTimerRef.current) clearTimeout(refreshTimerRef.current)
ClearPending(ts, ref) == IF ref # 0 THEN clearTimeout(ts, ref) ELSE ts

\* bounds of the model on jwtRetryCount and on the length of a retry chain
MaxRetryCount == cfg.jwtBackoff.maxRetries + MaxOvershoot

(***************************************************************************)
(* refreshJwt up to its await: remember the context, SET_LOADING, issue    *)
(* the request.  c is the jwtRetryCount of the closure that runs.          *)
(***************************************************************************)
StartRefresh(c, context, origin, failed) ==
  /\ Len(inflight) < MaxInFlight
  /\ lastContextRef' = IF context # Undefined THEN context ELSE lastContextRef
  /\ state' = vortexReducer(state, [type |-> "SET_LOADING", payload |-> TRUE])
  /\ inflight' = Append(inflight, [c |-> c, context |-> context,
                                   origin |-> origin, failed |-> failed,
                                   overtaken |-> FALSE])

\* a consumer calls the refreshJwt of the current render
RefreshJwt(context) ==
  /\ StartRefresh(state.jwtRetryCount, context, "manual", 0)
  /\ lastEvent' = [Event("start") EXCEPT !.attempt = state.jwtRetryCount]
  /\ UNCHANGED <<config, refreshTimerRef, timers, hookVars, probe, mounted>>

\* a pending timeout fires: the retry timer calls refreshJwt(context) with the
\* context its closure captured, the renewal timer refreshJwt(lastContextRef.current);
\* both call the refreshJwt of the closure that armed them
TimerFire(t) ==
  /\ t \in timers
  /\ timers' = timers \ {t}
  /\ StartRefresh(t.c,
                  IF t.kind = "retry" THEN t.context ELSE lastContextRef,
                  "timer", t.failed)
  /\ lastEvent' = [Event("fire") EXCEPT !.attempt = t.c, !.delay = t.delay]
  /\ UNCHANGED <<config, refreshTimerRef, hookVars, probe, mounted>>

\* how the promise of a refreshJwt invocation settles once its request has:
\* the try block's errors all reach the catch block, and neither branch of
\* the catch block throws
RefreshJwtPromise(branch) == "fulfilled"

Remove(seq, i) == SubSeq(seq, 1, i - 1) \o SubSeq(seq, i + 1, Len(seq))

(***************************************************************************)
(* refreshJwt after the await, success: decode, SET_JWT, schedule the next *)
(* renewal.                                                                *)
(***************************************************************************)
\* response.jwt
JwtOf(response) == IF Has(response, "jwt") THEN response.jwt ELSE Undefined

\* mutant: a token that cannot be decoded is handled as a failed renewal
OutcomeDecodeStrict(r) ==
  IF r.ok /\ DecodeUser(JwtOf(r.value), cfg) # NullUser THEN "success" ELSE "failure"

\* which branch of refreshJwt's try/catch a settled request takes: the catch
\* block only when apiCall threw (a decode error is caught by the inner try)
Outcome(r) == IF r.ok THEN "success" ELSE "failure"

\* mutant: an interval of 0 schedules a renewal too
ToBooleanAlways(interval) == TRUE

\* if (defaultConfig.refreshJwtInterval): 0 is falsy
ToBoolean(interval) == interval # 0

RefreshSucceeded(call, response) ==
  LET jwt == JwtOf(response)
      user == DecodeUser(jwt, cfg)
      interval == cfg.refreshJwtInterval
      cleared == IF ToBoolean(interval)
                 THEN ClearPending(timers, refreshTimerRef) ELSE timers
      id == NewTimerId(cleared)
  IN /\ state' = vortexReducer(state, [type |-> "SET_JWT",
                                       payload |-> [jwt |-> jwt, user |-> user]])
     /\ IF ToBoolean(interval)
        THEN /\ FreeTimerIds(cleared) # {}
             /\ timers' = cleared \cup
                  {[id |-> id, kind |-> "renew", c |-> call.c,
                    context |-> Undefined, delay |-> interval, failed |-> 0]}
             /\ refreshTimerRef' = id
        ELSE UNCHANGED <<timers, refreshTimerRef>>
     /\ lastEvent' = [Event("success") EXCEPT
                        !.prevCount = state.jwtRetryCount, !.jwt = jwt,
                        !.armed = IF ToBoolean(interval) THEN "renew" ELSE "none",
                        !.delay = IF ToBoolean(interval) THEN interval ELSE 0,
                        !.cancelled = (cleared # timers),
                        !.promise = RefreshJwtPromise("success"),
                        !.overtaken = call.overtaken]

(***************************************************************************)
(* refreshJwt after the await, failure: the catch block.                   *)
(***************************************************************************)
\* history: how apiCall used defaultConfig.onError before it threw into
\* refreshJwt's catch block: "once" is one call, with the error it threw
OnErrorUse(r) ==
  IF r.onError = <<>> THEN "none"
  ELSE IF r.onError = <<r.err>> THEN "once"
  ELSE "other"

RefreshFailed(call, r) ==
  LET err == r.err
      backoffConfig == cfg.jwtBackoff
      delay == nextDelay(call.c, backoffConfig)
      cleared == ClearPending(timers, refreshTimerRef)
      id == NewTimerId(cleared)
      failed == Min(call.failed + 1, MaxRetryCount)
  IN IF shouldRetry(call.c, backoffConfig)
        THEN /\ state.jwtRetryCount < MaxRetryCount
             /\ FreeTimerIds(cleared) # {}
             /\ state' = vortexReducer(state, [type |-> "INCREMENT_RETRY",
                                               payload |-> delay])
             /\ timers' = cleared \cup
                  {[id |-> id, kind |-> "retry", c |-> call.c,
                    context |-> call.context, delay |-> delay, failed |-> failed]}
             /\ refreshTimerRef' = id
             /\ lastEvent' = [Event("retry") EXCEPT
                                !.attempt = call.c, !.armed = "retry",
                                !.jwt = JwtOf(r.value),
                                !.delay = delay, !.cancelled = (cleared # timers),
                                !.failed = failed,
                                !.promise = RefreshJwtPromise("retry"),
                                !.onError = OnErrorUse(r)]
        ELSE /\ state' = vortexReducer(
                           vortexReducer(state, [type |-> "SET_ERROR", payload |-> err]),
                           [type |-> "RESET_RETRY"])
             /\ UNCHANGED <<timers, refreshTimerRef>>
             /\ lastEvent' = [Event("giveup") EXCEPT
                                !.attempt = call.c, !.failed = failed,
                                !.jwt = JwtOf(r.value),
                                !.promise = RefreshJwtPromise("giveup"),
                                !.onError = OnErrorUse(r)]

\* history: the consumer's calls started before the i-th invocation are marked
\* when the i-th one, a consumer's call too, has its response installed first
Overtake(calls, i) ==
  [j \in 1..Len(calls) |->
     IF j < i /\ calls[j].origin = "manual"
     THEN [calls[j] EXCEPT !.overtaken = TRUE] ELSE calls[j]]

\* the request of the i-th suspended refreshJwt settles with resp
RequestComplete(i, resp) ==
  /\ i \in 1..Len(inflight)
  /\ LET call == inflight[i]
         r == apiCall(resp)
     IN /\ IF Outcome(r) = "success" THEN RefreshSucceeded(call, r.value)
           ELSE RefreshFailed(call, r)
        /\ inflight' = IF Outcome(r) = "success" /\ call.origin = "manual"
                       THEN Remove(Overtake(inflight, i), i)
                       ELSE Remove(inflight, i)
  /\ UNCHANGED <<config, lastContextRef, hookVars, probe, mounted>>

(***************************************************************************)
(* clearAuth                                                               *)
(***************************************************************************)
\* mutant: a clearAuth that resets the state but leaves the pending timeout
ClearAuthKeepsTimer ==
  /\ timers' = timers
  /\ refreshTimerRef' = 0
  /\ state' = vortexReducer(state, [type |-> "CLEAR_AUTH"])
  /\ lastEvent' = [Event("clear") EXCEPT !.cancelled = FALSE,
                                         !.repeat = (lastEvent.type = "clear")]
  /\ UNCHANGED <<config, lastContextRef, inflight, hookVars, probe, mounted>>

ClearAuth ==
  /\ timers' = ClearPending(timers, refreshTimerRef)
  /\ refreshTimerRef' = 0
  /\ state' = vortexReducer(state, [type |-> "CLEAR_AUTH"])
  /\ lastEvent' = [Event("clear") EXCEPT !.cancelled = (timers' # timers),
                                         !.repeat = (lastEvent.type = "clear")]
  /\ UNCHANGED <<config, lastContextRef, inflight, hookVars, probe, mounted>>

Next ==
  \/ \E context \in Contexts \cup {Undefined} : RefreshJwt(context)
  \/ \E t \in timers : TimerFire(t)
  \/ \E i \in 1..MaxInFlight, resp \in JwtResponses : RequestComplete(i, resp)
  \/ ClearAuth

\* any interleaving of consumer calls, request completions and timers
Spec == Init /\ [][Next]_vars

\* a consumer that calls refreshJwt only while no renewal is in flight or
\* scheduled: every chain call - retry - retry ... runs alone
Idle == inflight = <<>> /\ timers = {}

NextSequential ==
  \/ \E context \in Contexts \cup {Undefined} : Idle /\ RefreshJwt(context)
  \/ \E t \in timers : TimerFire(t)
  \/ \E i \in 1..MaxInFlight, resp \in JwtResponses : RequestComplete(i, resp)
  \/ ClearAuth

SpecSequential == InitSequential /\ [][NextSequential]_vars

\* a consumer that renews for two different contexts and calls refreshJwt
\* only while no request is in flight (timers may be pending)
TwoContexts == {"ctxA", "ctxB"}

NextContexts ==
  \/ \E context \in TwoContexts \cup {Undefined} :
        inflight = <<>> /\ RefreshJwt(context)
  \/ \E t \in timers : TimerFire(t)
  \/ \E i \in 1..MaxInFlight, resp \in JwtResponses : RequestComplete(i, resp)
  \/ ClearAuth

SpecContexts == Init /\ [][NextContexts]_vars

(***************************************************************************)
(* Unmount: the cleanup of the provider's effect clears the timeout the    *)
(* ref names.  The ref, the pending promises and their continuations       *)
(* outlive the component; what they dispatch is rendered by nobody.        *)
(***************************************************************************)
Unmount ==
  /\ mounted
  /\ mounted' = FALSE
  /\ timers' = ClearPending(timers, refreshTimerRef)
  /\ lastEvent' = [Event("unmount") EXCEPT !.cancelled = (timers' # timers)]
  /\ UNCHANGED <<config, state, refreshTimerRef, lastContextRef, inflight,
                 hookVars, probe>>

\* a provider that may be unmounted: its consumers call refreshJwt (only
\* while no request is in flight) and clearAuth as long as it is mounted;
\* timers and settled requests run their callbacks whether it is or not
NextUnmount ==
  \/ \E context \in Contexts \cup {Undefined} :
        mounted /\ inflight = <<>> /\ RefreshJwt(context)
  \/ \E t \in timers : TimerFire(t)
  \/ \E i \in 1..MaxInFlight, resp \in JwtResponses : RequestComplete(i, resp)
  \/ mounted /\ ClearAuth
  \/ Unmount

SpecUnmount == Init /\ [][NextUnmount]_vars

(***************************************************************************)
(* The requests the gateway sends for the invitation operations of the     *)
(* context, and the responses of the backend routes.                       *)
(***************************************************************************)
\* encodeURIComponent on the argument values used here
EncodeURIComponent(str) ==
  CASE str = "a@x.io" -> "a%40x.io"
    [] str = "team a" -> "team%20a"
    [] OTHER -> str

ContentType == "Content-Type" :> "application/json"

\* mutant: the gateway sends the held credential as a bearer token
FetchInitAuthorized(options) ==
  Spread([headers |->
            Spread(ContentType @@ ("Authorization" :> ("Bearer " \o state.jwt)),
                   IF Has(options, "headers") THEN options.headers ELSE EmptyObject)],
         options)

\* the second argument of fetch:
\* { headers: { 'Content-Type': ..., ...options.headers }, ...options }
FetchInit(options) ==
  Spread([headers |->
            Spread(ContentType,
                   IF Has(options, "headers") THEN options.headers ELSE EmptyObject)],
         options)

\* `${baseUrl}${endpoint}`
Url(endpoint, useBackendUrl, conf) ==
  (IF useBackendUrl /\ Has(conf, "backendApiUrl") /\ conf.backendApiUrl # ""
   THEN conf.backendApiUrl ELSE conf.apiBaseUrl) \o endpoint

Request(endpoint, options, useBackendUrl, conf) ==
  [url |-> Url(endpoint, useBackendUrl, conf), init |-> FetchInit(options)]

\* the invitation operations of the context, on the arguments used here
ContextCalls ==
  { [op |-> "getInvitationsByTarget",
     endpoint |-> "/invitations?targetType=" \o EncodeURIComponent("email")
                    \o "&targetValue=" \o EncodeURIComponent("a@x.io"),
     options |-> EmptyObject],
    [op |-> "getInvitation",
     endpoint |-> "/invitations/" \o EncodeURIComponent("inv1"),
     options |-> EmptyObject],
    [op |-> "revokeInvitation",
     endpoint |-> "/invitations/" \o EncodeURIComponent("inv1"),
     options |-> [method |-> "DELETE"]],
    [op |-> "acceptInvitations",
     endpoint |-> "/invitations/accept",
     options |-> [method |-> "POST",
                  body |-> [invitationIds |-> <<"inv1">>, target |-> "email:a@x.io"]]],
    [op |-> "getInvitationsByGroup",
     endpoint |-> "/invitations/by-group/" \o EncodeURIComponent("team a")
                    \o "/" \o EncodeURIComponent("g1"),
     options |-> EmptyObject],
    [op |-> "deleteInvitationsByGroup",
     endpoint |-> "/invitations/by-group/" \o EncodeURIComponent("team a")
                    \o "/" \o EncodeURIComponent("g1"),
     options |-> [method |-> "DELETE"]],
    [op |-> "reinvite",
     endpoint |-> "/invitations/" \o EncodeURIComponent("inv1") \o "/reinvite",
     options |-> [method |-> "POST"]] }

\* JSON values that are falsy: 0, false, null
FalsyValues == { [falsy |-> "0"], [falsy |-> "false"], [falsy |-> "null"] }

Payload == [invitations |-> [items |-> "inv1"]]

GatewayResponses ==
  { HttpResponse(TRUE, 200, "OK", body) :
      body \in {[data |-> Payload], Payload, EmptyObject,
                [data |-> Payload, error |-> "ignored"]}
               \cup {[data |-> v] : v \in FalsyValues} }
  \cup { HttpResponse(FALSE, 404, "Not Found", body) :
           body \in {[error |-> "No such invitation"], EmptyObject,
                     [error |-> ""], [data |-> Payload]} }
  \cup { NotJsonResponse(TRUE, 200, "OK"),
         NotJsonResponse(FALSE, 502, "Bad Gateway") }
  \cup FailureResponses

\* a consumer calls an invitation operation of the context and the request
\* settles; the provider keeps no state for these calls.  A run is followed
\* up to the first such call.
ApiCall(call, resp) ==
  /\ probe = NoProbe
  /\ probe' = [op |-> "apiCall", name |-> call.op, held |-> state.jwt,
               request |-> Request(call.endpoint, call.options, FALSE, cfg),
               response |-> resp, result |-> apiCall(resp)]
  /\ UNCHANGED <<providerVars, hookVars>>

NextGateway ==
  \/ probe = NoProbe /\ NextSequential
  \/ \E call \in ContextCalls, resp \in GatewayResponses : ApiCall(call, resp)

SpecGateway == Mounted({[refreshJwtInterval |-> 0, jwtBackoff |-> CustomBackoff]})
                 /\ [][NextGateway]_vars

\* apiCall as a function of its arguments: the options a caller may pass
\* (RequestInit), with and without headers of its own
HeaderInputs ==
  { EmptyObject,
    "X-Trace" :> "t1",
    "Accept" :> "text/csv",
    ("X-Trace" :> "t1") @@ ("Accept" :> "text/csv"),
    "Content-Type" :> "text/plain" }

MethodInputs == {"GET", "POST", "DELETE"}

OptionInputs ==
  LET withMethod == {EmptyObject} \cup {[method |-> m] : m \in MethodInputs}
      withHeaders == withMethod \cup
                       {Spread(o, [headers |-> h]) :
                          o \in withMethod, h \in HeaderInputs}
  IN withHeaders

\* apiCall(endpoint, options, useBackendUrl) up to the fetch
Fetch(endpoint, options, useBackendUrl) ==
  /\ probe = NoProbe
  /\ probe' = [op |-> "fetch", options |-> options,
               request |-> Request(endpoint, options, useBackendUrl, cfg)]
  /\ UNCHANGED <<providerVars, hookVars>>

NextFetch ==
  \E endpoint \in {"/jwt", "/invitations/accept", "/invitations/inv1"},
     options \in OptionInputs, useBackendUrl \in BOOLEAN :
       Fetch(endpoint, options, useBackendUrl)

\* a provider with and without a backend URL of its own
FetchConfigs ==
  { [refreshJwtInterval |-> 0, jwtBackoff |-> CustomBackoff],
    [refreshJwtInterval |-> 0, jwtBackoff |-> CustomBackoff,
     backendApiUrl |-> "https://backend.example"] }

SpecFetch == Mounted(FetchConfigs) /\ [][NextFetch]_vars

(***************************************************************************)
(* useInvitations: the loading/error key of each operation.                *)
(***************************************************************************)
RECURSIVE Join(_, _)
\* Array.prototype.join
Join(arr, sep) ==
  IF arr = <<>> THEN ""
  ELSE IF Len(arr) = 1 THEN arr[1]
  ELSE arr[1] \o sep \o Join(Tail(arr), sep)

\* mutant: reinvite takes over the key of the operation it was copied from
KeyCopied(op, args) ==
  CASE op = "getInvitationsByTarget" -> "getByTarget-" \o args[1] \o "-" \o args[2]
    [] op = "getInvitation" -> "get-" \o args[1]
    [] op = "revokeInvitation" -> "revoke-" \o args[1]
    [] op = "acceptInvitations" -> "accept-" \o Join(args[1], ",")
    [] op = "getInvitationsByGroup" -> "getByGroup-" \o args[1] \o "-" \o args[2]
    [] op = "deleteInvitationsByGroup" -> "deleteByGroup-" \o args[1] \o "-" \o args[2]
    [] op = "reinvite" -> "revoke-" \o args[1]

\* const key = `...` of each operation
Key(op, args) ==
  CASE op = "getInvitationsByTarget" -> "getByTarget-" \o args[1] \o "-" \o args[2]
    [] op = "getInvitation" -> "get-" \o args[1]
    [] op = "revokeInvitation" -> "revoke-" \o args[1]
    [] op = "acceptInvitations" -> "accept-" \o Join(args[1], ",")
    [] op = "getInvitationsByGroup" -> "getByGroup-" \o args[1] \o "-" \o args[2]
    [] op = "deleteInvitationsByGroup" -> "deleteByGroup-" \o args[1] \o "-" \o args[2]
    [] op = "reinvite" -> "reinvite-" \o args[1]

\* argument values, some of them containing the separators the keys use
InvitationIds == {"x", "y", "x,y"}
InvitationIdLists == {<<"x">>, <<"x", "y">>, <<"x,y">>}
Targets == {"email:a@x.io", "sms:+1"}
TargetTypes == {"email", "internal"}
TargetValues == {"a@x.io", "b-c"}
GroupTypes == {"team", "team-a"}
GroupIds == {"b", "a-b"}

HookInputs ==
  { [op |-> "getInvitationsByTarget", args |-> <<t, v>>] :
      t \in TargetTypes, v \in TargetValues }
  \cup { [op |-> o, args |-> <<id>>] :
           o \in {"getInvitation", "revokeInvitation", "reinvite"},
           id \in InvitationIds }
  \cup { [op |-> "acceptInvitations", args |-> <<ids, target>>] :
           ids \in InvitationIdLists, target \in Targets }
  \cup { [op |-> o, args |-> <<t, g>>] :
           o \in {"getInvitationsByGroup", "deleteInvitationsByGroup"},
           t \in GroupTypes, g \in GroupIds }

\* two calls of hook operations compute their keys
ComputeKeys(a, b) ==
  /\ probe = NoProbe
  /\ probe' = [op |-> "keys", a |-> a, b |-> b,
               keyA |-> Key(a.op, a.args), keyB |-> Key(b.op, b.args)]
  /\ UNCHANGED <<providerVars, hookVars>>

NextKeys == \E a \in HookInputs, b \in HookInputs : ComputeKeys(a, b)

SpecKeys == Mounted({EmptyObject}) /\ [][NextKeys]_vars

(***************************************************************************)
(* useInvitations: the life of a call.  Every operation sets its key       *)
(* loading and clears its error, awaits the operation of the context,      *)
(* stores and rethrows a failure, and in its finally clears the loading    *)
(* flag.                                                                   *)
(***************************************************************************)
JsUndefined == [js |-> "undefined"]

\* prev => ({ ...prev, [key]: value })
setState(prev, key, value) == Spread(prev, key :> value)

\* isLoading(key): loading[key] || false
isLoading(key) == IF Has(loading, key) THEN loading[key] ELSE FALSE

\* getError(key): errors[key] || null
getError(key) == IF Has(errors, key) THEN errors[key] ELSE Null

\* what the operation of the context returns for the gateway's result
ContextResult(op, r) ==
  IF ~r.ok THEN [ok |-> FALSE, err |-> r.err, value |-> JsUndefined]
  ELSE [ok |-> TRUE, err |-> "",
        value |->
          CASE op \in {"getInvitationsByTarget", "getInvitationsByGroup"} ->
                 IF Has(r.value, "invitations") THEN r.value.invitations
                 ELSE JsUndefined
            [] op \in {"revokeInvitation", "deleteInvitationsByGroup"} -> JsUndefined
            [] OTHER -> r.value]

\* mutant: no finally block
FinallySkipped(prev, key) == prev

\* finally { setLoadingState(key, false) }
Finally(prev, key) == setState(prev, key, FALSE)

\* mutant: the catch block rethrows without storing
CatchSkipped(prev, key, err) == prev

\* catch: setErrorState(key, err) before the rethrow
Catch(prev, key, err) == setState(prev, key, err)

\* the calls a component makes; two of them have different arguments and
\* one key
LifecycleInputs ==
  { [op |-> "revokeInvitation", args |-> <<"x">>],
    [op |-> "getInvitation", args |-> <<"x">>],
    [op |-> "getInvitationsByGroup", args |-> <<"team-a", "b">>],
    [op |-> "getInvitationsByGroup", args |-> <<"team", "a-b">>] }

LifecycleKeys == {Key(input.op, input.args) : input \in LifecycleInputs}

HookResponses ==
  { HttpResponse(TRUE, 200, "OK", [data |-> Payload]),
    HttpResponse(FALSE, 404, "Not Found", [error |-> "No such invitation"]) }
  \cup {resp \in FailureResponses : resp.kind = "reject"}

HookEvent(phase, name, key, alone) ==
  [op |-> "hook", phase |-> phase, name |-> name, key |-> key, alone |-> alone,
   before |-> isLoading(key), err |-> "", returned |-> JsUndefined]

\* a component calls an operation of the hook: up to the await
HookStart(input) ==
  LET key == Key(input.op, input.args)
      shared == \E c \in hookCalls : c.key = key
      id == CHOOSE n \in 1..MaxHookCalls : \A c \in hookCalls : c.id # n
  IN /\ Cardinality(hookCalls) < MaxHookCalls
     /\ loading' = setState(loading, key, TRUE)
     /\ errors' = setState(errors, key, Null)
     /\ hookCalls' =
          {IF c.key = key THEN [c EXCEPT !.alone = FALSE] ELSE c : c \in hookCalls}
          \cup {[id |-> id, op |-> input.op, key |-> key, alone |-> ~shared]}
     /\ probe' = HookEvent("start", input.op, key, ~shared)
     /\ UNCHANGED providerVars

\* the request of a suspended operation settles: return or catch, then finally
HookSettle(c, resp) ==
  LET res == ContextResult(c.op, apiCall(resp))
  IN /\ c \in hookCalls
     /\ errors' = IF res.ok THEN errors ELSE Catch(errors, c.key, res.err)
     /\ loading' = Finally(loading, c.key)
     /\ hookCalls' = hookCalls \ {c}
     /\ probe' = [HookEvent(IF res.ok THEN "resolved" ELSE "rejected",
                            c.op, c.key, c.alone)
                    EXCEPT !.err = res.err, !.returned = res.value]
     /\ UNCHANGED providerVars

\* clearError(key)
ClearError(key) ==
  /\ errors' = setState(errors, key, Null)
  /\ probe' = HookEvent("clearError", "clearError", key, FALSE)
  /\ UNCHANGED <<providerVars, loading, hookCalls>>

NextInvitations ==
  \/ \E input \in LifecycleInputs : HookStart(input)
  \/ \E c \in hookCalls, resp \in HookResponses : HookSettle(c, resp)
  \/ \E key \in LifecycleKeys : ClearError(key)

SpecInvitations == Mounted({EmptyObject}) /\ [][NextInvitations]_vars

(***************************************************************************)
(* The useMemo that builds defaultConfig, evaluated on configs whose        *)
(* jwtBackoff sets any subset of the four parameters.                      *)
(***************************************************************************)
BackoffParams == {"initialDelayMs", "maxDelayMs", "multiplier", "maxRetries"}

OtherBackoff ==
  [initialDelayMs |-> 500, maxDelayMs |-> 30000, multiplier |-> 4, maxRetries |-> 3]

\* every jwtBackoff object a caller can write with these values
PartialBackoffs ==
  UNION { { b \in [K -> {CustomBackoff[k] : k \in K} \cup {OtherBackoff[k] : k \in K}] :
              \A k \in K : b[k] \in {CustomBackoff[k], OtherBackoff[k]} } :
          K \in SUBSET BackoffParams }

ConfigInputs ==
  { Spread(interval, backoff) :
      interval \in {EmptyObject, [refreshJwtInterval |-> 0]},
      backoff \in {EmptyObject} \cup {[jwtBackoff |-> b] : b \in PartialBackoffs} }

\* a render evaluates the useMemo on the config prop
UseMemo ==
  /\ probe = NoProbe
  /\ probe' = [op |-> "defaultConfig", result |-> defaultConfig(config)]
  /\ UNCHANGED <<providerVars, hookVars>>

NextConfig == UseMemo

SpecConfig == Mounted(ConfigInputs) /\ [][NextConfig]_vars

(***************************************************************************)
(* useVortexJWT: isExpiringSoon and refreshIfNeeded.  Times are in         *)
(* milliseconds since the epoch, as Date.now() returns them.               *)
(***************************************************************************)
\* !value, for the value of an expiry claim
Falsy(value) ==
  \/ value.t = "undefined"
  \/ value.t = "number" /\ value.n = 0
  \/ value.t = "string" /\ value.s = ""

\* payload.exp || payload.expires
ExpOrExpires(claims) == IF Falsy(claims.exp) THEN claims.expires ELSE claims.exp

\* new Date(str).getTime(): NaN for a string that is not a date
DateGetTime(str) ==
  IF str = "1970-01-01T00:10:00Z" THEN [nan |-> FALSE, ms |-> 600000]
  ELSE [nan |-> TRUE, ms |-> 0]

\* typeof exp === 'number' ? exp * 1000 : new Date(exp).getTime()
expirationTime(exp) ==
  IF exp.t = "number" THEN [nan |-> FALSE, ms |-> exp.n * 1000]
  ELSE DateGetTime(exp.s)

\* mutant: a token that expires exactly at now + buffer is not yet expiring
isExpiringSoonStrict(jwt, bufferMinutes, now) ==
  IF jwt \in {Null, Undefined, ""} THEN TRUE
  ELSE
    LET a == Atob(Segment1(Split(jwt)))
        j == JSONParse(a.text)
        exp == ExpOrExpires(j.claims)
        bufferTime == bufferMinutes * 60 * 1000
    IN IF ~a.ok \/ ~j.ok \/ j.kind = "null" THEN TRUE
       ELSE IF Falsy(exp) THEN FALSE
       ELSE /\ ~expirationTime(exp).nan
            /\ now + bufferTime > expirationTime(exp).ms

\* isExpiringSoon(bufferMinutes) at Date.now() = now, for the jwt of the
\* context: true without a jwt and when split / atob / JSON.parse / the
\* property access throws; a comparison with NaN is false
isExpiringSoon(jwt, bufferMinutes, now) ==
  IF jwt \in {Null, Undefined, ""} THEN TRUE
  ELSE
    LET a == Atob(Segment1(Split(jwt)))
        j == JSONParse(a.text)
        exp == ExpOrExpires(j.claims)
        bufferTime == bufferMinutes * 60 * 1000
    IN IF ~a.ok \/ ~j.ok \/ j.kind = "null" THEN TRUE
       ELSE IF Falsy(exp) THEN FALSE
       ELSE /\ ~expirationTime(exp).nan
            /\ now + bufferTime >= expirationTime(exp).ms

\* bufferMinutes: number = 5
DefaultBufferMinutes == 5

\* the argument of refreshIfNeeded: omitted, or a number of minutes
BufferInputs ==
  {[given |-> FALSE, minutes |-> 0]} \cup
  {[given |-> TRUE, minutes |-> m] : m \in {0, 1, 10}}

\* what Date.now() returns when refreshIfNeeded runs
NowInputs == {0, 299999, 300000, 540000, 600000, 700000}

\* the jwt the context holds when refreshIfNeeded runs
HeldTokens ==
  {TokU1, TokEmpty, TokNullJson, TokNotJson, TokNotB64, TokOpaque,
   TokExp, TokExpires, TokExpText}

\* a mounted provider that holds no credential, or the one a renewal installed
Holding(tokens) ==
  \/ Mounted({[refreshJwtInterval |-> 0, jwtBackoff |-> CustomBackoff]})
  \/ \E tok \in tokens :
       /\ config = [refreshJwtInterval |-> 0, jwtBackoff |-> CustomBackoff]
       /\ state = vortexReducer(initialState,
                     [type |-> "SET_JWT",
                      payload |-> [jwt |-> tok,
                                   user |-> DecodeUser(tok, config)]])
       /\ refreshTimerRef = 0
       /\ lastContextRef = Undefined
       /\ timers = {}
       /\ inflight = <<>>
       /\ lastEvent = Event("init")
       /\ HookUnused
       /\ probe = NoProbe
       /\ mounted = TRUE

\* refreshIfNeeded(buffer) called at Date.now() = now
RefreshIfNeeded(buffer, now) ==
  LET bufferMinutes == IF buffer.given THEN buffer.minutes
                       ELSE DefaultBufferMinutes
      soon == isExpiringSoon(state.jwt, bufferMinutes, now)
  IN /\ probe = NoProbe
     /\ probe' = [op |-> "refreshIfNeeded", jwt |-> state.jwt,
                  bufferMinutes |-> bufferMinutes, now |-> now,
                  before |-> state]
     /\ IF soon
        THEN /\ StartRefresh(state.jwtRetryCount, Undefined, "manual", 0)
             /\ lastEvent' = [Event("start") EXCEPT
                                !.attempt = state.jwtRetryCount]
        ELSE UNCHANGED <<state, inflight, lastContextRef, lastEvent>>
     /\ UNCHANGED <<config, refreshTimerRef, timers, hookVars, mounted>>

NextJwt == \E buffer \in BufferInputs, now \in NowInputs :
              RefreshIfNeeded(buffer, now)

SpecJwt == Holding(HeldTokens) /\ [][NextJwt]_vars

\* contextValue.isAuthenticated: !!state.jwt
isAuthenticated == state.jwt \notin {Null, Undefined, ""}


(***************************************************************************)
(* Claims.                                                                 *)
(***************************************************************************)
Failed == lastEvent.type \in {"retry", "giveup"}

\* the timer the last step armed: pending, and the one refreshTimerRef names
ArmedTimer(kind, delay) ==
  \E t \in timers : t.id = refreshTimerRef /\ t.kind = kind /\ t.delay = delay

\* C1: a failure that refreshJwt observes at attempt count a (the
\* jwtRetryCount its closure reads) is retried exactly when a < maxRetries,
\* and then the retry timer is armed for min(initialDelayMs * multiplier^a,
\* maxDelayMs) milliseconds, which is also the delay stored in the state.
C1_BackoffDelay ==
  Failed =>
    LET a == lastEvent.attempt
        b == cfg.jwtBackoff
        d == b.initialDelayMs * Pow(b.multiplier, a)
    IN /\ (lastEvent.type = "retry") <=> (a < b.maxRetries)
       /\ lastEvent.type = "retry" =>
            /\ lastEvent.delay = (IF d < b.maxDelayMs THEN d ELSE b.maxDelayMs)
            /\ ArmedTimer("retry", lastEvent.delay)
            /\ state.jwtRetryDelayMs = lastEvent.delay
       /\ lastEvent.type = "giveup" => lastEvent.armed = "none"

\* C1 witness: a failure at attempt 1 whose delay the cap cut (3000 -> 2000)
C1_Witness ==
  /\ lastEvent.type = "retry"
  /\ lastEvent.attempt = 1
  /\ cfg.jwtBackoff.initialDelayMs * cfg.jwtBackoff.multiplier > cfg.jwtBackoff.maxDelayMs
  /\ lastEvent.delay = cfg.jwtBackoff.maxDelayMs

\* C2: with the default backoff, the first, second and third failed attempt
\* of one refreshJwt call and its timer-driven retries schedule the delays
\* 1000, 2000 and 4000 ms.
C2_DefaultDelays ==
  (config = EmptyObject /\ lastEvent.type = "retry" /\ lastEvent.failed \in 1..3)
    => lastEvent.delay = 1000 * Pow(2, lastEvent.failed - 1)

\* C3: with the default backoff and every request failing, no error is
\* visible before the 5th consecutive failure, and right after the 5th
\* failure error is set and jwtRetryCount is 0.
C3_ErrorAtFifthFailure ==
  (config = EmptyObject /\ Failed) =>
    /\ lastEvent.failed < 5 => state.error = Null
    /\ lastEvent.failed = 5 => (state.error # Null /\ state.jwtRetryCount = 0)

\* C4: a retry chain is finite: it retries at most maxRetries failures, the
\* next failure takes the give-up branch, which leaves error set,
\* jwtRetryCount 0 and no timer pending.
C4_ChainGivesUp ==
  /\ lastEvent.type = "retry" => lastEvent.failed <= cfg.jwtBackoff.maxRetries
  /\ lastEvent.type = "giveup" =>
       (state.error # Null /\ state.jwtRetryCount = 0 /\ timers = {})

\* C5: at most one renewal/retry timer is pending, and it is the one
\* refreshTimerRef names (so the next arming or clearAuth cancels it).
C5_OnePendingTimer ==
  /\ Cardinality(timers) <= 1
  /\ \A t \in timers : t.id = refreshTimerRef

\* C5 witness: a timer was armed while another was pending, which it cancelled
C5_Witness ==
  /\ lastEvent.armed # "none"
  /\ lastEvent.cancelled
  /\ Cardinality(timers) = 1

\* C6: right after a successful renewal jwtRetryCount and jwtRetryDelayMs
\* are 0, whatever they were before.
C6_SuccessResetsRetry ==
  lastEvent.type = "success" =>
    (state.jwtRetryCount = 0 /\ state.jwtRetryDelayMs = 0)

\* C6 witness: a success that found the counter at 2 or more
C6_Witness == lastEvent.type = "success" /\ lastEvent.prevCount >= 2

\* C7: jwtRetryCount never exceeds the configured maxRetries.
C7_RetryCountCeiling == state.jwtRetryCount <= cfg.jwtBackoff.maxRetries

\* the claims a token's payload decodes to: none for a token that cannot be
\* decoded
ClaimsUserId(jwt) ==
  CASE jwt = TokU1 -> "u1"
    [] jwt = TokU2 -> "u2"
    [] jwt = TokEmpty -> Undefined
    [] OTHER -> "none"

\* C8: user is null, or the identity decoded from the jwt now in the state;
\* user is never non-null while jwt is null.
C8_IdentityOfCurrentJwt ==
  /\ state.jwt = Null => state.user = NullUser
  /\ state.user # NullUser =>
       /\ ClaimsUserId(state.jwt) # "none"
       /\ state.user.userId = ClaimsUserId(state.jwt)
       /\ state.user = DecodeUser(state.jwt, cfg)

\* C8 witness: an identity is installed, by a renewal that replaced a state
\* with a raised retry counter
C8_Witness ==
  /\ lastEvent.type = "success"
  /\ state.user # NullUser
  /\ state.user.userId = "u1"
  /\ lastEvent.prevCount >= 1

\* C9: after a renewal succeeded with a token t whose payload decodes to
\* claims c, jwt = t, user.userId = c.userId, isAuthenticated, error is null
\* and isLoading is false.
C9_AuthenticatedAfterSuccess ==
  (lastEvent.type = "success" /\ ClaimsUserId(lastEvent.jwt) # "none") =>
    /\ state.jwt = lastEvent.jwt
    /\ state.user # NullUser
    /\ state.user.userId = ClaimsUserId(lastEvent.jwt)
    /\ isAuthenticated
    /\ state.error = Null
    /\ state.isLoading = FALSE

\* C9 witness: such a success while another request is still in flight
C9_Witness ==
  /\ lastEvent.type = "success"
  /\ lastEvent.jwt = TokU1
  /\ state.user # NullUser
  /\ Len(inflight) = 1

\* C10: a response carrying a token that cannot be decoded is a success:
\* the raw token is installed with user null, no error is set, the retry
\* counter is not raised and no backoff retry is armed.
C10_UndecodableTokenInstalled ==
  (lastEvent.type \in {"success", "retry", "giveup"}
     /\ lastEvent.jwt \in Tokens /\ ClaimsUserId(lastEvent.jwt) = "none") =>
    /\ lastEvent.type = "success"
    /\ state.jwt = lastEvent.jwt
    /\ state.user = NullUser
    /\ state.error = Null
    /\ state.jwtRetryCount = 0
    /\ lastEvent.armed # "retry"

\* C10 witness: an undecodable token arrived while the retry counter was raised
C10_Witness ==
  /\ lastEvent.type = "success"
  /\ lastEvent.jwt = TokNotB64
  /\ lastEvent.prevCount >= 1
  /\ state.jwt = TokNotB64

\* C11: a step that starts a renewal (a consumer's call or a timer firing)
\* and a step that fails one (retried or given up) leave jwt and user as
\* they were; the credential changes only when a renewal succeeds or
\* clearAuth runs.
C11_FailureKeepsCredential ==
  [][/\ lastEvent'.type \in {"start", "fire", "retry", "giveup"}
        => (state'.jwt = state.jwt /\ state'.user = state.user)
     /\ (state'.jwt # state.jwt \/ state'.user # state.user)
        => lastEvent'.type \in {"success", "clear"}]_vars

\* C11 witness: a renewal was given up while a decoded credential is held
C11_Witness ==
  /\ lastEvent.type = "giveup"
  /\ state.jwt = TokU1
  /\ state.user # NullUser
  /\ state.error # Null

\* a backoff retry is scheduled, or is the request now in flight
RetryPending == \E t \in timers : t.kind = "retry"

RetryInFlight ==
  \E i \in 1..Len(inflight) : inflight[i].origin = "timer" /\ inflight[i].failed > 0

\* C12: while a backoff retry is pending or in flight, the error field is null.
C12_NoErrorDuringRetries ==
  (RetryPending \/ RetryInFlight) => state.error = Null

\* C12, amended: the error field becomes non-null, or changes to another
\* message, only in the step that gives a renewal up; a failure that is
\* retried leaves the error field as it was (so an error surfaced earlier
\* stays visible during later retries).
C12_ErrorSetOnlyByGiveUp ==
  [][/\ (state'.error # state.error /\ state'.error # Null)
        => lastEvent'.type = "giveup"
     /\ lastEvent'.type = "retry" => state'.error = state.error]_vars

\* C12 witness: a failure was retried while an earlier give-up's error shows
C12_Witness ==
  /\ lastEvent.type = "retry"
  /\ state.error # Null
  /\ RetryPending

C14_ClearAuthResets ==
  lastEvent.type = "clear" =>
    /\ timers = {}
    /\ refreshTimerRef = 0
    /\ state.jwt = Null
    /\ state.user = NullUser
    /\ state.error = Null
    /\ state.jwtRetryCount = 0
    /\ state.jwtRetryDelayMs = 0

\* C14 witness: clearAuth cancelled a pending timer while a request was in flight
C14_Witness ==
  /\ lastEvent.type = "clear"
  /\ lastEvent.cancelled
  /\ Len(inflight) >= 1

\* C15: clearAuth called while no request is in flight (in the
\* authenticated, the retrying or the failed state) leaves the provider
\* anonymous: no credential, no identity, not loading.
C15_ClearAuthGivesAnonymous ==
  (lastEvent.type = "clear" /\ inflight = <<>>) =>
    /\ state.jwt = Null
    /\ state.user = NullUser
    /\ ~isAuthenticated
    /\ state.isLoading = FALSE

\* C16: a clearAuth that directly follows a clearAuth changes neither the
\* reducer state nor the timer slot nor the pending timers.
C16_ClearAuthIdempotent ==
  [][(lastEvent.type = "clear" /\ lastEvent'.type = "clear")
       => /\ state' = state
          /\ refreshTimerRef' = refreshTimerRef
          /\ timers' = timers]_vars

\* C16 witness: clearAuth ran twice in a row with a request in flight
C16_Witness ==
  /\ lastEvent.type = "clear"
  /\ lastEvent.repeat
  /\ Len(inflight) >= 1
  /\ state.isLoading

C18_ContextChangesOnlyByCall ==
  [][IF lastEvent'.type = "start"
          /\ inflight'[Len(inflight')].context # Undefined
     THEN lastContextRef' = inflight'[Len(inflight')].context
     ELSE lastContextRef' = lastContextRef]_vars

\* C19: whenever a request succeeds, jwt and user become those of its
\* response, whichever invocation was started first; so after two
\* overlapping calls have both succeeded the state holds the credential of
\* the response that resolved last.
C19_LastResponseWins ==
  lastEvent.type = "success" =>
    /\ state.jwt = lastEvent.jwt
    /\ state.user = DecodeUser(lastEvent.jwt, cfg)

\* C19 witness: of two overlapping calls of the consumer the one started
\* first resolved last, after the other's response had been installed, and
\* its credential is the one held once both have resolved
C19_Witness ==
  /\ lastEvent.type = "success"
  /\ lastEvent.overtaken
  /\ inflight = <<>>
  /\ state.jwt = TokU1
  /\ state.user # NullUser
  /\ state.user.userId = "u1"

\* no request in flight and no timer pending
Quiet == inflight = <<>> /\ timers = {}

Anonymous ==
  /\ state.jwt = Null
  /\ state.user = NullUser
  /\ ~isAuthenticated
  /\ state.isLoading = FALSE

\* C20: a provider that has just mounted is anonymous (jwt null, user null,
\* isAuthenticated false, isLoading false) with no request in flight and no
\* timer pending, and it stays so through every step that is not a
\* consumer's refreshJwt call.
C20_AnonymousUntilCalled ==
  /\ (Anonymous /\ Quiet)
  /\ [][(Anonymous /\ Quiet /\ lastEvent'.type # "start")
          => (Anonymous' /\ Quiet')]_vars

\* C20 witness: a mounted provider with automatic renewal configured that
\* has not been asked for a credential
C20_Witness ==
  /\ lastEvent.type = "init"
  /\ cfg.refreshJwtInterval = DefaultRefreshJwtInterval
  /\ Anonymous
  /\ Quiet

\* C21: in the configuration the provider works with, every backoff
\* parameter the caller's config does not set has its default value
\* (initialDelayMs 1000, multiplier 2, maxDelayMs 60000, maxRetries 5), also
\* when the caller's jwtBackoff sets only some of the four.
C21_BackoffDefaultsFilled ==
  probe.op = "defaultConfig" =>
    \A p \in BackoffParams :
      ~(Has(config, "jwtBackoff") /\ Has(config.jwtBackoff, p))
        => /\ Has(probe.result.jwtBackoff, p)
           /\ probe.result.jwtBackoff[p] = DefaultBackoff[p]

\* the request carries the credential in one of its headers
Carries(request, jwt) ==
  \E h \in DOMAIN request.init.headers :
    request.init.headers[h] \in {jwt, "Bearer " \o jwt}

\* C22: a request the gateway sends while a credential is held carries
\* that credential.
C22_CredentialAttached ==
  (probe.op = "apiCall" /\ probe.held # Null) => Carries(probe.request, probe.held)

\* C22, amended: the gateway attaches no credential: whether or not one is
\* held, the headers of a request it sends for an invitation operation are
\* exactly the JSON content type.
C22_CredentialNotAttached ==
  probe.op = "apiCall" =>
    /\ probe.request.init.headers = ContentType
    /\ ~Carries(probe.request, probe.held)

\* C22 witness: a request was sent while a credential was held whose
\* identity could not be decoded
C22_Witness ==
  /\ probe.op = "apiCall"
  /\ probe.held = TokNotB64
  /\ state.jwt = TokNotB64
  /\ state.user = NullUser

\* what the claim expects of a response with a status: [ok, err, value]
ByStatus(resp) ==
  IF ~resp.ok
  THEN [ok |-> FALSE,
        err |-> IF Has(resp.body, "error") /\ resp.body.error # ""
                THEN resp.body.error
                ELSE "HTTP " \o ToString(resp.status) \o ": " \o resp.statusText,
        value |-> EmptyObject]
  ELSE [ok |-> TRUE, err |-> "",
        value |-> IF Has(resp.body, "data") THEN resp.body.data ELSE resp.body]

AsExpected(r, e) == r.ok = e.ok /\ r.err = e.err /\ r.value = e.value

C24_OnErrorOncePerFailure ==
  /\ probe.op = "apiCall" =>
       IF probe.result.ok THEN probe.result.onError = <<>>
       ELSE /\ probe.result.err # ""
            /\ probe.result.onError = <<probe.result.err>>
  /\ Failed => lastEvent.onError = "once"

\* C24 witness: a renewal attempt failed and was retried, and a later
\* invitation call failed on the network
C24_Witness ==
  /\ lastEvent.type = "retry"
  /\ lastEvent.onError = "once"
  /\ probe.op = "apiCall"
  /\ probe.response.kind = "reject"
  /\ probe.result.onError = <<"Failed to fetch">>

\* C27: two calls of the same useInvitations operation have the same key
\* exactly when their argument values are the same.
C27_SameKeyIffSameArguments ==
  (probe.op = "keys" /\ probe.a.op = probe.b.op)
    => ((probe.keyA = probe.keyB) <=> (probe.a.args = probe.b.args))

\* C28: the keys of two calls of different useInvitations operations differ,
\* whatever the arguments.
C28_KeysOfDifferentOperationsDiffer ==
  (probe.op = "keys" /\ probe.a.op # probe.b.op) => probe.keyA # probe.keyB

\* C28 witness: two different operations were called on the same invitation
C28_Witness ==
  /\ probe.op = "keys"
  /\ probe.a.op = "revokeInvitation"
  /\ probe.b.op = "reinvite"
  /\ probe.a.args = probe.b.args
  /\ probe.keyA = "revoke-x"
  /\ probe.keyB = "reinvite-x"

\* what a successful call of the operation returns to the component
ExpectedPayload(name) ==
  CASE name \in {"getInvitationsByTarget", "getInvitationsByGroup"} ->
         Payload.invitations
    [] name \in {"revokeInvitation", "deleteInvitationsByGroup"} -> JsUndefined
    [] OTHER -> Payload

\* C25: for a hook operation that no other call on its key overlaps: the
\* key's loading flag is false when the call starts, true while the call is
\* suspended, and false once it has succeeded; the payload is returned and
\* no error is recorded under the key, neither during the call nor after it.
C25_LoadingLifecycle ==
  /\ \A c \in hookCalls :
       c.alone => (isLoading(c.key) /\ getError(c.key) = Null)
  /\ (probe.op = "hook" /\ probe.alone /\ probe.phase = "start")
       => ~probe.before
  /\ (probe.op = "hook" /\ probe.alone /\ probe.phase = "resolved")
       => /\ probe.before
          /\ ~isLoading(probe.key)
          /\ getError(probe.key) = Null
          /\ probe.returned = ExpectedPayload(probe.name)

\* C25 witness: revokeInvitation('x') succeeded, called alone on its key,
\* while a call on another key is still suspended
C25_Witness ==
  /\ probe.op = "hook"
  /\ probe.phase = "resolved"
  /\ probe.alone
  /\ probe.key = "revoke-x"
  /\ ~isLoading("revoke-x")
  /\ hookCalls # {}

\* a step changes the error stored under key k
ErrorChanges(k) == getError(k) # Null /\ getError(k)' # getError(k)

\* C26: when a hook operation fails, the error it rethrows is stored under
\* its key and the key's loading flag is false; a stored error changes only
\* in a step that starts a call with that key or is clearError(key).
C26_ErrorStoredUntilNextCall ==
  /\ [](probe.op = "hook" /\ probe.phase = "rejected"
          => /\ probe.err # ""
             /\ getError(probe.key) = probe.err
             /\ ~isLoading(probe.key))
  /\ [][\A k \in LifecycleKeys :
          ErrorChanges(k)
            => (probe'.key = k /\ probe'.phase \in {"start", "clearError"})]_vars

\* C26, amended: the same, except that a stored error is also replaced when
\* another call with the same key, already suspended when the error was
\* stored, fails in its turn.
C26_ErrorStoredUntilReplaced ==
  /\ [](probe.op = "hook" /\ probe.phase = "rejected"
          => /\ probe.err # ""
             /\ getError(probe.key) = probe.err
             /\ ~isLoading(probe.key))
  /\ [][\A k \in LifecycleKeys :
          ErrorChanges(k)
            => /\ probe'.key = k
               /\ probe'.phase \in {"start", "clearError", "rejected"}
               /\ probe'.phase = "rejected" => getError(k)' = probe'.err]_vars

\* C26 witness: a call failed on the network and its error is stored
C26_Witness ==
  /\ probe.op = "hook"
  /\ probe.phase = "rejected"
  /\ probe.alone
  /\ getError(probe.key) = "Failed to fetch"
  /\ ~isLoading(probe.key)

\* C29: at every failed renewal the attempt count the catch block uses, for
\* the choice between retry and give-up and for the delay, is the
\* jwtRetryCount the provider state holds when the failure is handled,
\* whether a consumer or a timer started the invocation.
C29_AttemptIsLiveCount ==
  [][lastEvent'.type \in {"retry", "giveup"}
       => lastEvent'.attempt = state.jwtRetryCount]_vars

\* C30: no two renewal requests that a timer started (auto-renewal or
\* backoff retry) are in flight at the same time, whatever calls of
\* refreshJwt the consumer interleaves.
C30_OneTimerRequestInFlight ==
  \A i, j \in DOMAIN inflight :
     (inflight[i].origin = "timer" /\ inflight[j].origin = "timer") => i = j

\* C31: once a renewal has been given up and its error surfaced, no timer
\* is pending and no timer starts a credential request; the next request is
\* one the consumer starts by calling refreshJwt.
C31_FailedIsTerminal ==
  /\ [](lastEvent.type = "giveup" => timers = {})
  /\ [][lastEvent.type = "giveup" => lastEvent'.type # "fire"]_vars

C33_NoTimerAfterUnmount == ~mounted => timers = {}

\* C34: in the state a successful renewal leaves, no backoff retry timer
\* is pending, whatever refreshJwtInterval is configured (0 included).
C34_SuccessCancelsRetryTimer ==
  lastEvent.type = "success" => \A t \in timers : t.kind # "retry"

\* C35: isLoading is true in every state in which a credential request is
\* in flight, also when several calls of refreshJwt overlap and one of them
\* has settled before the others.
C35_LoadingWhileInFlight == inflight # <<>> => state.isLoading

\* C36: for every key, the loading flag of the key is true in every state
\* in which a hook call with that key is suspended, also when two calls
\* with the same arguments overlap and one of them has completed.
C36_KeyLoadingWhileInFlight == \A call \in hookCalls : isLoading(call.key)

\* C37: every request a timer starts, renewal or retry, is sent with the
\* context that is remembered at the moment the timer fires.
C37_TimerUsesRememberedContext ==
  [][lastEvent'.type = "fire"
       => inflight'[Len(inflight')].context = lastContextRef]_vars

\* the expiry of a token in milliseconds, for the tokens that carry one
HasExpiry(jwt) == jwt \in {TokExp, TokExpires}

Expiry(jwt) == 600000

\* the tokens whose payload can be decoded to an object
Decodable(jwt) == jwt \in {TokU1, TokEmpty, TokExp, TokExpires, TokExpText}

\* C38: refreshIfNeeded(buffer) starts a renewal exactly when there is no
\* jwt, the jwt cannot be decoded, or now + buffer >= the expiry of the
\* token; a decodable token without an expiry never starts one; when no
\* renewal is started the state is as it was.
C38_RefreshIfNeeded ==
  probe.op = "refreshIfNeeded" =>
    /\ (inflight # <<>>) <=>
          \/ probe.jwt = Null
          \/ ~Decodable(probe.jwt)
          \/ /\ HasExpiry(probe.jwt)
             /\ probe.now + probe.bufferMinutes * 60000 >= Expiry(probe.jwt)
    /\ (Decodable(probe.jwt) /\ ~HasExpiry(probe.jwt)) => inflight = <<>>
    /\ inflight = <<>> =>
          (state = probe.before /\ timers = {} /\ lastEvent.type = "init")
    /\ inflight # <<>> =>
          (lastEvent.type = "start" /\ state.isLoading
           /\ inflight[1].context = Undefined)

\* C38 witness: the token expires exactly at now + the default buffer, and
\* a renewal was started
C38_Witness ==
  /\ probe.op = "refreshIfNeeded"
  /\ probe.jwt = TokExp
  /\ probe.bufferMinutes = DefaultBufferMinutes
  /\ probe.now = 300000
  /\ inflight # <<>>

====
